---- MODULE Spec2Model ----
(***************************************************************************)
(* Model of ru_sci_bench/classification.py: the benchmark orchestrator     *)
(* get_ru_sci_bench_metrics, the dataset assemblers                        *)
(* get_X_y_for_classification and get_embeddings_for_translation_search,   *)
(* and the evaluators classify and translation_search.                     *)
(***************************************************************************)
EXTENDS Integers, Sequences, FiniteSets, TLC

(***************************************************************************)
(* Bounds of the model.                                                    *)
(***************************************************************************)
\* most rows of a train file and a test file taken together
MaxRows == 3
\* most pairs of a translation mapping
MaxPairs == 2
\* longest list passed as the `metrics` selector
MaxSelLen == 2

(***************************************************************************)
(* Python strings of the selector, as character sequences, so that the     *)
(* substring test of `name in metrics` is computed and not assumed.        *)
(***************************************************************************)
S_all == <<"a","l","l">>
S_translation_search == <<"t","r","a","n","s","l","a","t","i","o","n","_","s","e","a","r","c","h">>
S_full_classification == <<"f","u","l","l","_","c","l","a","s","s","i","f","i","c","a","t","i","o","n">>
S_ru_classification == <<"r","u","_","c","l","a","s","s","i","f","i","c","a","t","i","o","n">>
S_en_classification == <<"e","n","_","c","l","a","s","s","i","f","i","c","a","t","i","o","n">>
S_foo == <<"f","o","o">>
S_empty == << >>
S_ru_en_classification == <<"r","u","_","c","l","a","s","s","i","f","i","c","a","t","i","o","n",",","e","n","_","c","l","a","s","s","i","f","i","c","a","t","i","o","n">>
S_all_tasks == <<"a","l","l","_","t","a","s","k","s">>

\* the task catalog, in the order of the four `if` statements
Categories == <<S_translation_search, S_full_classification,
                S_ru_classification, S_en_classification>>
CategorySet == {Categories[i] : i \in 1..Len(Categories)}

\* a selector is a Python str or a Python list of str
PyStr(s) == [kind |-> "str", val |-> s]
PyList(l) == [kind |-> "list", val |-> l]

SeqsUpTo(S, n) == UNION {[1..k -> S] : k \in 0..n}

StrSelectors ==
  {PyStr(s) : s \in CategorySet \cup {S_all, S_foo, S_empty,
                                      S_ru_en_classification, S_all_tasks}}
ListSelectors == {PyList(l) : l \in SeqsUpTo(CategorySet \cup {S_all}, MaxSelLen)}
Selectors == StrSelectors \cup ListSelectors

\* Python `needle in haystack` for two str: substring
IsSubstring(needle, hay) ==
  \E i \in 0..(Len(hay) - Len(needle)) :
     \A j \in 1..Len(needle) : hay[i + j] = needle[j]

\* Python `name in metrics`: substring of a str, element of a list
PyContains(name, metrics_) ==
  IF metrics_.kind = "str"
  THEN IsSubstring(name, metrics_.val)
  ELSE \E i \in 1..Len(metrics_.val) : metrics_.val[i] = name

\* Python `metrics in ["all", name]`: a list never equals a str
PyInPair(metrics_, name) ==
  metrics_.kind = "str" /\ (metrics_.val = S_all \/ metrics_.val = name)

IsSelected_EqualityOnly(metrics_, name) ==
  PyInPair(metrics_, name)

IsSelected_AllInList(metrics_, name) ==
  \/ PyInPair(metrics_, name)
  \/ PyContains(name, metrics_)
  \/ metrics_.kind = "list" /\ PyContains(S_all, metrics_)

\* the condition of the four `if` statements
IsSelected(metrics_, name) ==
  PyInPair(metrics_, name) \/ PyContains(name, metrics_)

(***************************************************************************)
(* Data: the embeddings store, label files and the translation mapping.    *)
(***************************************************************************)
\* embedding vectors (all of one dimensionality)
Vectors == {<<0, 0>>, <<1, 0>>, <<0, 1>>, <<1, 1>>}
\* identifiers an embeddings file may hold, and those a data file may name
StoreIds == {1, 2}
FileIds == {1, 2, 99}
Labels == {"A", "B"}

\* an EmbeddingStore: dict from int id to vector
Stores == UNION {[D -> Vectors] : D \in SUBSET StoreIds}

\* rows of a label csv (columns id, label), in file order
Examples == [id : FileIds, label : Labels]
FilePairs ==
  {p \in SeqsUpTo(Examples, MaxRows) \X SeqsUpTo(Examples, MaxRows) :
     Len(p[1]) + Len(p[2]) <= MaxRows}

\* the translation json: str keys (ru ids) to int values (en ids), as the
\* items of the dict json.load builds, in iteration order; keys are unique
KeyStrs == {"1", "2", "99"}
Mappings ==
  {m \in SeqsUpTo([key : KeyStrs, value : FileIds], MaxPairs) :
     \A i, j \in 1..Len(m) : m[i].key = m[j].key => i = j}

\* Python int() of a json key; int() of an int value is that value
PyInt(s) == CASE s = "1" -> 1 [] s = "2" -> 2 [] s = "99" -> 99

\* the data files shipped with the benchmark, as far as the orchestrator's
\* control flow can tell them apart
DatasetStores == {(1 :> <<1, 0>> @@ 2 :> <<0, 1>>), (1 :> <<1, 0>>)}
DatasetLabelFiles ==
  { << >>,
    <<[id |-> 1, label |-> "A"], [id |-> 2, label |-> "B"]>>,
    <<[id |-> 1, label |-> "A"], [id |-> 99, label |-> "B"]>> }
DatasetFilePairs == DatasetLabelFiles \X DatasetLabelFiles
DatasetMappings ==
  { << >>,
    <<[key |-> "1", value |-> 2]>>,
    <<[key |-> "1", value |-> 2], [key |-> "2", value |-> 1]>>,
    <<[key |-> "1", value |-> 99]>> }

(***************************************************************************)
(* Outcome of a call: a value, or the exception it raises.                 *)
(***************************************************************************)
Ok(v) == [exc |-> "none", val |-> v]
Raise(e) == [exc |-> e, val |-> << >>]

Range(s) == {s[i] : i \in 1..Len(s)}

(***************************************************************************)
(* The insertion-ordered dict `results`, as a sequence of items.           *)
(***************************************************************************)
DictKeys(d) == [i \in 1..Len(d) |-> d[i].key]

DictSet_Prepend(d, k, v) ==
  <<[key |-> k, val |-> v]>> \o d

\* results[k] = v
DictSet(d, k, v) ==
  IF \E i \in 1..Len(d) : d[i].key = k
  THEN [i \in 1..Len(d) |-> IF d[i].key = k THEN [key |-> k, val |-> v] ELSE d[i]]
  ELSE Append(d, [key |-> k, val |-> v])

(***************************************************************************)
(* Dataset assemblers.                                                     *)
(***************************************************************************)
RECURSIVE DropSeen(_, _)
DropSeen(f, seen) ==
  IF f = << >> THEN << >>
  ELSE IF Head(f).id \in seen THEN DropSeen(Tail(f), seen)
  ELSE <<Head(f)>> \o DropSeen(Tail(f), seen \cup {Head(f).id})

get_X_y_for_classification_Dedup(embeddings_, train_, test_) ==
  LET tr == DropSeen(train_, {})
      te == DropSeen(test_, {})
  IN IF \E e \in Range(tr) \cup Range(te) : e.id \notin DOMAIN embeddings_
     THEN Raise("KeyError")
     ELSE Ok([X_train |-> [i \in 1..Len(tr) |-> embeddings_[tr[i].id]],
              X_test |-> [i \in 1..Len(te) |-> embeddings_[te[i].id]],
              y_train |-> [i \in 1..Len(tr) |-> tr[i].label],
              y_test |-> [i \in 1..Len(te) |-> te[i].label]])

get_X_y_for_classification_SkipMissing(embeddings_, train_, test_) ==
  LET keep(f) == SelectSeq(f, LAMBDA e : e.id \in DOMAIN embeddings_)
  IN Ok([X_train |-> [i \in 1..Len(keep(train_)) |-> embeddings_[keep(train_)[i].id]],
         X_test |-> [i \in 1..Len(keep(test_)) |-> embeddings_[keep(test_)[i].id]],
         y_train |-> [i \in 1..Len(train_) |-> train_[i].label],
         y_test |-> [i \in 1..Len(test_) |-> test_[i].label]])

get_X_y_for_classification(embeddings_, train_, test_) ==
  IF \E i \in 1..Len(train_) : train_[i].id \notin DOMAIN embeddings_
  THEN Raise("KeyError")
  ELSE IF \E i \in 1..Len(test_) : test_[i].id \notin DOMAIN embeddings_
  THEN Raise("KeyError")
  ELSE Ok([X_train |-> [i \in 1..Len(train_) |-> embeddings_[train_[i].id]],
           X_test |-> [i \in 1..Len(test_) |-> embeddings_[test_[i].id]],
           y_train |-> [i \in 1..Len(train_) |-> train_[i].label],
           y_test |-> [i \in 1..Len(test_) |-> test_[i].label]])

get_embeddings_for_translation_search_Reversed(embeddings_, translation_test_) ==
  LET n == Len(translation_test_)
  IN IF \E i \in 1..n : PyInt(translation_test_[i].key) \notin DOMAIN embeddings_
     THEN Raise("KeyError")
     ELSE IF \E i \in 1..n : translation_test_[i].value \notin DOMAIN embeddings_
     THEN Raise("KeyError")
     ELSE Ok([ru_embs |-> [i \in 1..n |-> embeddings_[PyInt(translation_test_[i].key)]],
              en_embs |-> [i \in 1..n |-> embeddings_[translation_test_[n + 1 - i].value]]])

get_embeddings_for_translation_search(embeddings_, translation_test_) ==
  LET n == Len(translation_test_)
  IN IF \E i \in 1..n : PyInt(translation_test_[i].key) \notin DOMAIN embeddings_
     THEN Raise("KeyError")
     ELSE IF \E i \in 1..n : translation_test_[i].value \notin DOMAIN embeddings_
     THEN Raise("KeyError")
     ELSE Ok([ru_embs |-> [i \in 1..n |-> embeddings_[PyInt(translation_test_[i].key)]],
              en_embs |-> [i \in 1..n |-> embeddings_[translation_test_[i].value]]])

(***************************************************************************)
(* Retrieval evaluator.                                                    *)
(***************************************************************************)
Dot(a, b) == a[1] * b[1] + a[2] * b[2]

\* cosine similarity of q and c as the fraction num / den of its signed
\* square; sklearn leaves a zero vector unnormalised, so its similarity is 0
SimNum(q, c) == LET d == Dot(q, c) IN IF d < 0 THEN 0 - d * d ELSE d * d
SimDen(q, c) == IF Dot(q, q) * Dot(c, c) = 0 THEN 1 ELSE Dot(q, q) * Dot(c, c)
Closer(q, a, b) == SimNum(q, a) * SimDen(q, b) > SimNum(q, b) * SimDen(q, a)

\* NearestNeighbors(n_neighbors=1, metric="cosine").fit(results_embs)
\*   .kneighbors(queries_embs): for each query the 0-based index of a candidate
\* at least cosine distance; which one among equidistant candidates is the
\* library's choice
kneighbors(results_embs_, queries_embs_) ==
  LET n == Len(results_embs_)
      m == Len(queries_embs_)
  IN {t \in [1..m -> 0..(n - 1)] :
        \A i \in 1..m : \A k \in 1..n :
           ~Closer(queries_embs_[i], results_embs_[k], results_embs_[t[i] + 1])}

\* Python true division of two ints, as a fraction in lowest terms
RECURSIVE Gcd(_, _)
Gcd(a, b) == IF b = 0 THEN a ELSE Gcd(b, a % b)
TrueDiv(a, b) == [num |-> a \div Gcd(a, b), den |-> b \div Gcd(a, b)]

translation_search_OneBased(queries_embs_, results_embs_, top_index_) ==
  IF Len(results_embs_) = 0 \/ Len(queries_embs_) = 0
  THEN Raise("ValueError")
  ELSE
    LET correct_indexes == [i \in 1..Len(results_embs_) |-> i]
        is_correct == {i \in 1..Len(correct_indexes) : top_index_[i] = correct_indexes[i]}
    IN Ok(("recall@1" :> TrueDiv(Cardinality(is_correct), Len(correct_indexes))))

translation_search_EmptyIsZero(queries_embs_, results_embs_, top_index_) ==
  LET correct_indexes == [i \in 1..Len(results_embs_) |-> i - 1]
      is_correct == {i \in 1..Len(correct_indexes) : top_index_[i] = correct_indexes[i]}
  IN IF Len(correct_indexes) = 0
     THEN Ok(("recall@1" :> [num |-> 0, den |-> 1]))
     ELSE Ok(("recall@1" :> TrueDiv(Cardinality(is_correct), Len(correct_indexes))))

\* top_index_ is what kneighbors returned; fit and kneighbors reject an array
\* without rows (sklearn's input validation raises ValueError)
translation_search(queries_embs_, results_embs_, top_index_) ==
  IF Len(results_embs_) = 0 \/ Len(queries_embs_) = 0
  THEN Raise("ValueError")
  ELSE
    LET correct_indexes == [i \in 1..Len(results_embs_) |-> i - 1]
        is_correct == {i \in 1..Len(correct_indexes) : top_index_[i] = correct_indexes[i]}
    IN IF Len(correct_indexes) = 0
       THEN Raise("ZeroDivisionError")
       ELSE Ok(("recall@1" :> TrueDiv(Cardinality(is_correct), Len(correct_indexes))))

(***************************************************************************)
(* Classification evaluator.                                               *)
(***************************************************************************)
\* macro and weighted F1 of the fitted LinearSVC: outputs of the library
F1Pairs == {[macro_f1 |-> 0, weighted_f1 |-> 0], [macro_f1 |-> 1, weighted_f1 |-> 1]}

\* the result dict of classify, given the scores the library computed;
\* LinearSVC.fit raises ValueError without rows or with fewer than two
\* classes, predict raises ValueError without rows
classify(X_train_, y_train_, X_test_, y_test_, get_cls_report_, f1) ==
  IF Len(X_train_) = 0 \/ Cardinality(Range(y_train_)) < 2
  THEN Raise("ValueError")
  ELSE IF Len(X_test_) = 0
  THEN Raise("ValueError")
  ELSE IF get_cls_report_
  THEN Ok(("macro_f1" :> f1.macro_f1 @@ "weighted_f1" :> f1.weighted_f1
           @@ "cls_report" :> "classification_report"))
  ELSE Ok(("macro_f1" :> f1.macro_f1 @@ "weighted_f1" :> f1.weighted_f1))

(***************************************************************************)
(* State of one invocation of get_ru_sci_bench_metrics.                    *)
(***************************************************************************)
VARIABLES
  metrics,           \* argument: the selector
  get_cls_report,    \* argument
  pc,                \* position in the function body
  embeddings,        \* local: the loaded store
  loads,             \* number of calls of load_embeddings_from_jsonl so far
  results,           \* local: the report under construction
  evaluated,         \* sub-tasks whose evaluation has started, in order
  fitted,            \* sub-tasks whose classifier fit has been called, in order
  translation_test,  \* the translation mapping read last
  ru_embs, en_embs,  \* locals
  queries_embs, results_embs, top_index,  \* last call of translation_search
  train, test,       \* the label files read last
  X_train, X_test, y_train, y_test,       \* locals
  returned,          \* << >>, or <<report>> once the function has returned
  raised             \* "none", or the exception that left the function

vars == <<metrics, get_cls_report, pc, embeddings, loads, results, evaluated,
          fitted, translation_test, ru_embs, en_embs, queries_embs,
          results_embs, top_index, train, test, X_train, X_test, y_train,
          y_test, returned, raised>>

tsVars == <<translation_test, ru_embs, en_embs, queries_embs, results_embs, top_index>>
clsVars == <<train, test, X_train, X_test, y_train, y_test, fitted>>
argVars == <<metrics, get_cls_report>>

\* the statements of the function body, in program order
Program ==
  << "load",
     "if_translation_search", "ru_en_translation_search", "en_ru_translation_search",
     "if_full_classification", "elibrary_oecd_full", "elibrary_grnti_full",
     "if_ru_classification", "elibrary_oecd_ru", "elibrary_grnti_ru",
     "if_en_classification", "elibrary_oecd_en", "elibrary_grnti_en",
     "return" >>

Index(label) == CHOOSE i \in 1..Len(Program) : Program[i] = label
After(label) == Program[Index(label) + 1]
AfterBlock(label) == Program[Index(label) + 3]

\* the category each `if` tests
CategoryOf ==
  ( "if_translation_search" :> S_translation_search
    @@ "if_full_classification" :> S_full_classification
    @@ "if_ru_classification" :> S_ru_classification
    @@ "if_en_classification" :> S_en_classification )

ClassificationTasks ==
  { "elibrary_oecd_full", "elibrary_grnti_full", "elibrary_oecd_ru",
    "elibrary_grnti_ru", "elibrary_oecd_en", "elibrary_grnti_en" }

InitLocals ==
  /\ pc = "load"
  /\ embeddings = << >>
  /\ loads = 0
  /\ results = << >>
  /\ evaluated = << >>
  /\ fitted = << >>
  /\ translation_test = << >>
  /\ ru_embs = << >> /\ en_embs = << >>
  /\ queries_embs = << >> /\ results_embs = << >> /\ top_index = << >>
  /\ train = << >> /\ test = << >>
  /\ X_train = << >> /\ X_test = << >> /\ y_train = << >> /\ y_test = << >>
  /\ returned = << >>
  /\ raised = "none"

Init ==
  /\ metrics \in Selectors
  /\ get_cls_report \in BOOLEAN
  /\ InitLocals

Throw_Swallow(e) ==
  /\ raised' = raised
  /\ pc' = After(pc)

\* an exception leaves the function: nothing is returned
Throw(e) ==
  /\ raised' = e
  /\ pc' = "raised"

\* embeddings = load_embeddings_from_jsonl(embeddings_path); results = {}
\* the loader yields a store or fails on a missing or malformed file
load_embeddings_from_jsonl(stores) == {Ok(s) : s \in stores} \cup {Raise("LoadError")}

LoadEmbeddings(stores) ==
  /\ pc = "load"
  /\ loads' = loads + 1
  /\ \E out \in load_embeddings_from_jsonl(stores) :
       IF out.exc # "none"
       THEN /\ Throw(out.exc)
            /\ UNCHANGED <<embeddings, results>>
       ELSE /\ embeddings' = out.val
            /\ results' = << >>
            /\ pc' = After(pc)
            /\ UNCHANGED raised
  /\ UNCHANGED <<argVars, evaluated, tsVars, clsVars, returned>>

SelectCategory_Reload ==
  /\ pc \in DOMAIN CategoryOf
  /\ IF IsSelected(metrics, CategoryOf[pc])
     THEN pc' = After(pc) /\ loads' = loads + 1
     ELSE pc' = AfterBlock(pc) /\ loads' = loads
  /\ UNCHANGED <<argVars, embeddings, results, evaluated, tsVars, clsVars,
                 returned, raised>>

\* if metrics in ["all", name] or name in metrics:
SelectCategory ==
  /\ pc \in DOMAIN CategoryOf
  /\ pc' = IF IsSelected(metrics, CategoryOf[pc]) THEN After(pc) ELSE AfterBlock(pc)
  /\ UNCHANGED <<argVars, embeddings, loads, results, evaluated, tsVars, clsVars,
                 returned, raised>>

\* ru_embs, en_embs = get_embeddings_for_translation_search(...)
\* results["ru_en_translation_search"] = translation_search(ru_embs, en_embs)
EvalRuEn(mappings) ==
  /\ pc = "ru_en_translation_search"
  /\ evaluated' = Append(evaluated, pc)
  /\ \E tt \in mappings :
       LET emb == get_embeddings_for_translation_search(embeddings, tt)
       IN /\ translation_test' = tt
          /\ IF emb.exc # "none"
             THEN /\ Throw(emb.exc)
                  /\ UNCHANGED <<ru_embs, en_embs, queries_embs, results_embs,
                                 top_index, results>>
             ELSE /\ ru_embs' = emb.val.ru_embs
                  /\ en_embs' = emb.val.en_embs
                  /\ queries_embs' = emb.val.ru_embs
                  /\ results_embs' = emb.val.en_embs
                  /\ \E top \in kneighbors(emb.val.en_embs, emb.val.ru_embs) :
                       LET out == translation_search(emb.val.ru_embs, emb.val.en_embs, top)
                       IN /\ top_index' = top
                          /\ IF out.exc # "none"
                             THEN /\ Throw(out.exc)
                                  /\ UNCHANGED results
                             ELSE /\ results' = DictSet(results, pc, out.val)
                                  /\ pc' = After(pc)
                                  /\ UNCHANGED raised
  /\ UNCHANGED <<argVars, embeddings, loads, clsVars, returned>>

\* results["en_ru_translation_search"] = translation_search(en_embs, ru_embs)
EvalEnRu ==
  /\ pc = "en_ru_translation_search"
  /\ evaluated' = Append(evaluated, pc)
  /\ queries_embs' = en_embs
  /\ results_embs' = ru_embs
  /\ \E top \in kneighbors(ru_embs, en_embs) :
       LET out == translation_search(en_embs, ru_embs, top)
       IN /\ top_index' = top
          /\ IF out.exc # "none"
             THEN /\ Throw(out.exc)
                  /\ UNCHANGED results
             ELSE /\ results' = DictSet(results, pc, out.val)
                  /\ pc' = After(pc)
                  /\ UNCHANGED raised
  /\ UNCHANGED <<argVars, embeddings, loads, translation_test, ru_embs, en_embs,
                 clsVars, returned>>

\* X_train, X_test, y_train, y_test = get_X_y_for_classification(...)
\* results[task] = classify(X_train, y_train, X_test, y_test, ...)
Classification(task, pairs) ==
  /\ pc = task
  /\ evaluated' = Append(evaluated, task)
  /\ \E p \in pairs :
       LET xy == get_X_y_for_classification(embeddings, p[1], p[2])
       IN /\ train' = p[1]
          /\ test' = p[2]
          /\ IF xy.exc # "none"
             THEN /\ Throw(xy.exc)
                  /\ UNCHANGED <<X_train, X_test, y_train, y_test, fitted, results>>
             ELSE /\ X_train' = xy.val.X_train
                  /\ X_test' = xy.val.X_test
                  /\ y_train' = xy.val.y_train
                  /\ y_test' = xy.val.y_test
                  /\ fitted' = Append(fitted, task)
                  /\ \E f1 \in F1Pairs :
                       LET out == classify(xy.val.X_train, xy.val.y_train,
                                           xy.val.X_test, xy.val.y_test,
                                           get_cls_report, f1)
                       IN IF out.exc # "none"
                          THEN /\ Throw(out.exc)
                               /\ UNCHANGED results
                          ELSE /\ results' = DictSet(results, task, out.val)
                               /\ pc' = After(task)
                               /\ UNCHANGED raised
  /\ UNCHANGED <<argVars, embeddings, loads, tsVars, returned>>

\* return results
Return ==
  /\ pc = "return"
  /\ returned' = <<results>>
  /\ pc' = "done"
  /\ UNCHANGED <<argVars, embeddings, loads, results, evaluated, tsVars, clsVars,
                 raised>>

Next ==
  \/ LoadEmbeddings(DatasetStores)
  \/ SelectCategory
  \/ EvalRuEn(DatasetMappings)
  \/ EvalEnRu
  \/ \E task \in ClassificationTasks : Classification(task, DatasetFilePairs)
  \/ Return

Spec == Init /\ [][Next]_vars

(***************************************************************************)
(* The translation search task alone, over every store and mapping.        *)
(***************************************************************************)
InitTS ==
  /\ metrics \in {PyStr(S_translation_search), PyList(<<S_translation_search>>)}
  /\ get_cls_report = FALSE
  /\ InitLocals

NextTS ==
  \/ LoadEmbeddings(Stores)
  \/ SelectCategory
  \/ EvalRuEn(Mappings)
  \/ EvalEnRu
  \/ Return

SpecTS == InitTS /\ [][NextTS]_vars

(***************************************************************************)
(* get_X_y_for_classification alone, over every store and file pair.       *)
(***************************************************************************)
InitXY ==
  /\ metrics = PyStr(S_full_classification)
  /\ get_cls_report = FALSE
  /\ pc = "call_get_X_y_for_classification"
  /\ embeddings \in Stores
  /\ loads = 1
  /\ results = << >>
  /\ evaluated = << >>
  /\ fitted = << >>
  /\ translation_test = << >>
  /\ ru_embs = << >> /\ en_embs = << >>
  /\ queries_embs = << >> /\ results_embs = << >> /\ top_index = << >>
  /\ \E p \in FilePairs : train = p[1] /\ test = p[2]
  /\ X_train = << >> /\ X_test = << >> /\ y_train = << >> /\ y_test = << >>
  /\ returned = << >>
  /\ raised = "none"

CallGetXY ==
  /\ pc = "call_get_X_y_for_classification"
  /\ LET xy == get_X_y_for_classification(embeddings, train, test)
     IN IF xy.exc # "none"
        THEN /\ raised' = xy.exc
             /\ pc' = "raised"
             /\ UNCHANGED <<X_train, X_test, y_train, y_test>>
        ELSE /\ X_train' = xy.val.X_train
             /\ X_test' = xy.val.X_test
             /\ y_train' = xy.val.y_train
             /\ y_test' = xy.val.y_test
             /\ pc' = "done"
             /\ UNCHANGED raised
  /\ UNCHANGED <<argVars, embeddings, loads, results, evaluated, fitted, tsVars,
                 train, test, returned>>

NextXY == CallGetXY

SpecXY == InitXY /\ [][NextXY]_vars
(***************************************************************************)
(* Properties.                                                             *)
(***************************************************************************)
Last(s) == s[Len(s)]
IsPrefix(a, b) == Len(a) <= Len(b) /\ \A i \in 1..Len(a) : a[i] = b[i]

\* the sub-task names in the order the specification fixes
FixedOrder ==
  << "ru_en_translation_search", "en_ru_translation_search",
     "elibrary_oecd_full", "elibrary_grnti_full",
     "elibrary_oecd_ru", "elibrary_grnti_ru",
     "elibrary_oecd_en", "elibrary_grnti_en" >>

\* the sub-tasks each catalog entry expands to, first one first
SubTasks(category) ==
  IF category = S_translation_search
    THEN <<"ru_en_translation_search", "en_ru_translation_search">>
  ELSE IF category = S_full_classification
    THEN <<"elibrary_oecd_full", "elibrary_grnti_full">>
  ELSE IF category = S_ru_classification
    THEN <<"elibrary_oecd_ru", "elibrary_grnti_ru">>
  ELSE <<"elibrary_oecd_en", "elibrary_grnti_en">>

TaskCategory(task) == CHOOSE c \in CategorySet : task \in Range(SubTasks(c))

ExpectedOrder ==
  SelectSeq(FixedOrder, LAMBDA t : IsSelected(metrics, TaskCategory(t)))

\* C1: sub-tasks are evaluated in the fixed order restricted to the selected
\* categories, whatever the order the selector lists them in, and the keys of
\* the report are inserted in that evaluation order.
C1_FixedOrder ==
  /\ IsPrefix(evaluated, ExpectedOrder)
  /\ IsPrefix(DictKeys(results), evaluated)
  /\ pc = "done" =>
       /\ evaluated = ExpectedOrder
       /\ DictKeys(returned[1]) = evaluated

C1_Witness ==
  /\ pc = "done"
  /\ metrics.kind = "list"
  /\ metrics.val = <<S_en_classification, S_translation_search>>
  /\ DictKeys(returned[1]) =
       << "ru_en_translation_search", "en_ru_translation_search",
          "elibrary_oecd_en", "elibrary_grnti_en" >>

\* the selectors C2 speaks of, and the catalog names each of them selects
CatalogSelector ==
  IF metrics.kind = "str"
  THEN metrics.val = S_all \/ metrics.val \in CategorySet
  ELSE Range(metrics.val) \subseteq CategorySet

CatalogNames ==
  IF metrics.kind = "str"
  THEN IF metrics.val = S_all THEN CategorySet ELSE {metrics.val}
  ELSE Range(metrics.val)

\* C2: for the selector "all" or a selection of catalog names, the report of a
\* completed run has exactly the sub-task names of the selected categories as
\* its keys, two per category.
C2_KeySet ==
  (pc = "done" /\ CatalogSelector) =>
    /\ Range(DictKeys(returned[1])) =
         UNION {Range(SubTasks(c)) : c \in CatalogNames}
    /\ Len(returned[1]) = 2 * Cardinality(CatalogNames)

C2_Witness ==
  /\ pc = "done"
  /\ metrics = PyStr(S_translation_search)
  /\ DictKeys(returned[1]) = <<"ru_en_translation_search", "en_ru_translation_search">>

\* C3: the loader runs exactly once, before the first sub-task, however many
\* categories are selected, and the loaded store is never modified afterwards.
C3_LoaderOnce ==
  /\ [](loads = IF pc = "load" THEN 0 ELSE 1)
  /\ [](Len(evaluated) > 0 => loads = 1)
  /\ [][pc # "load" => embeddings' = embeddings]_vars

C3_Witness ==
  /\ pc = "done"
  /\ loads = 1
  /\ Len(evaluated) = Len(FixedOrder)

\* C4: an error raised by the assembly or the evaluation of a sub-task leaves
\* the function at once: no later sub-task runs and no report is returned,
\* the results of the sub-tasks completed before included.
C4_FailFast ==
  /\ [](raised # "none" <=> pc = "raised")
  /\ [](pc = "raised" => returned = << >>)
  /\ [](Len(evaluated) > Len(results) => pc = "raised")
  /\ [][pc # "raised"]_vars

C4_Witness ==
  /\ pc = "raised"
  /\ Len(results) = 3
  /\ Last(evaluated) = "elibrary_grnti_full"
  /\ returned = << >>
\* the label files the sub-task evaluated last has read name an identifier
\* that has no embedding in the store
ReferencesMissingId ==
  /\ Len(evaluated) > 0
  /\ Last(evaluated) \in ClassificationTasks
  /\ \/ \E i \in 1..Len(train) : train[i].id \notin DOMAIN embeddings
     \/ \E i \in 1..Len(test) : test[i].id \notin DOMAIN embeddings

\* C5 as stated: when a label file of a selected classification sub-task names
\* an identifier without embedding, the missing-embedding error (KeyError) is
\* raised before any model fitting has occurred.
C5_BeforeAnyFit ==
  ReferencesMissingId => (raised = "KeyError" /\ fitted = << >>)

\* C5 as amended: when a classification sub-task is reached and its train or
\* test label file names an identifier without embedding, the missing-embedding
\* error (KeyError) is raised before the model of that sub-task is fitted and
\* the sub-task adds no result; sub-tasks earlier in the fixed order may have
\* fitted theirs.
C5_BeforeOwnFit ==
  ReferencesMissingId =>
    /\ pc = "raised"
    /\ raised = "KeyError"
    /\ Last(evaluated) \notin Range(fitted)
    /\ Last(evaluated) \notin Range(DictKeys(results))
    /\ Range(fitted) = Range(DictKeys(results)) \cap ClassificationTasks

C5_Witness ==
  /\ ReferencesMissingId
  /\ raised = "KeyError"
  /\ Last(evaluated) = "elibrary_grnti_full"
  /\ fitted = <<"elibrary_oecd_full">>
  /\ \E i \in 1..Len(test) : test[i].id = 99

\* C6: get_X_y_for_classification either raises the missing-embedding error,
\* and then some row names an identifier without embedding, or returns for
\* each split one feature row and one label per input row, in file order:
\* row i is the stored embedding and the label of the i-th example.
C6_RowsAligned ==
  /\ pc \in {"call_get_X_y_for_classification", "done", "raised"}
  /\ pc = "raised" =>
       /\ raised = "KeyError"
       /\ \E e \in Range(train) \cup Range(test) : e.id \notin DOMAIN embeddings
  /\ pc = "done" =>
       /\ Len(X_train) = Len(train) /\ Len(y_train) = Len(train)
       /\ Len(X_test) = Len(test) /\ Len(y_test) = Len(test)
       /\ \A i \in 1..Len(train) :
            X_train[i] = embeddings[train[i].id] /\ y_train[i] = train[i].label
       /\ \A i \in 1..Len(test) :
            X_test[i] = embeddings[test[i].id] /\ y_test[i] = test[i].label

C6_Witness ==
  /\ pc = "done"
  /\ Len(train) = 2 /\ Len(test) = 1
  /\ train[1].id = 2 /\ train[2].id = 1
  /\ X_train = <<embeddings[2], embeddings[1]>>
  /\ embeddings[1] # embeddings[2]
  /\ y_train = <<"B", "B">>

\* the dataset assembler of the translation search task has returned
TranslationAssembled ==
  /\ Len(evaluated) > 0
  /\ raised # "KeyError"

\* C7: the two arrays of get_embeddings_for_translation_search have one entry
\* per translation pair, entry i being the embeddings of the Russian and of
\* the English identifier of pair i; the ru-en evaluation queries with the
\* Russian array against the English one and the en-ru evaluation with the two
\* swapped, so query i and candidate i belong to pair i in both directions.
C7_PairAlignment ==
  TranslationAssembled =>
    /\ Len(ru_embs) = Len(translation_test)
    /\ Len(en_embs) = Len(translation_test)
    /\ \A i \in 1..Len(translation_test) :
         /\ ru_embs[i] = embeddings[PyInt(translation_test[i].key)]
         /\ en_embs[i] = embeddings[translation_test[i].value]
    /\ Last(evaluated) = "ru_en_translation_search" =>
         queries_embs = ru_embs /\ results_embs = en_embs
    /\ Last(evaluated) = "en_ru_translation_search" =>
         queries_embs = en_embs /\ results_embs = ru_embs

C7_Witness ==
  /\ TranslationAssembled
  /\ Last(evaluated) = "en_ru_translation_search"
  /\ Len(translation_test) = 2
  /\ translation_test[1].key = "2"
  /\ ru_embs[1] # ru_embs[2]
  /\ en_embs[1] # en_embs[2]
  /\ queries_embs # results_embs

\* the last call of translation_search has returned a result
SearchReturned ==
  /\ Len(evaluated) > 0
  /\ pc # "raised"

HitCount == Cardinality({i \in 1..Len(queries_embs) : top_index[i] = i - 1})

\* C8: on a non-empty aligned query set translation_search returns the single
\* key recall@1, its value the number of queries whose nearest neighbour has
\* their own index divided by the number of queries; the value is in [0, 1]
\* and is 1 exactly when every query's nearest neighbour is at its own index.
C8_RecallAtOne ==
  SearchReturned =>
    LET result == results[Len(results)].val
        recall == result["recall@1"]
    IN /\ results[Len(results)].key = Last(evaluated)
       /\ top_index \in kneighbors(results_embs, queries_embs)
       /\ Len(queries_embs) > 0
       /\ DOMAIN result = {"recall@1"}
       /\ recall.den > 0
       /\ recall.num * Len(queries_embs) = HitCount * recall.den
       /\ 0 <= recall.num /\ recall.num <= recall.den
       /\ (recall.num = recall.den) <=>
            (\A i \in 1..Len(queries_embs) : top_index[i] = i - 1)

C8_Witness ==
  /\ SearchReturned
  /\ Len(queries_embs) = 2
  /\ HitCount = 1
  /\ results[Len(results)].val["recall@1"] = [num |-> 1, den |-> 2]

RunsCategory(category) ==
  \/ metrics.kind = "str" /\ metrics.val = S_all
  \/ metrics.kind = "str" /\ metrics.val = category
  \/ metrics.kind = "list" /\ category \in Range(metrics.val)
  \/ metrics.kind = "str" /\ IsSubstring(category, metrics.val)

\* C10: the sub-tasks of a category run exactly when the selector is the
\* string "all", is the category name, or contains it (as an element of a
\* list, as a substring of a string); a selector that does so for no category
\* raises no error, loads the embeddings once and returns an empty report.
C10_SelectorSemantics ==
  /\ \A c \in CategorySet :
       /\ SubTasks(c)[1] \in Range(evaluated) => RunsCategory(c)
       /\ (pc = "done" /\ RunsCategory(c)) => Range(SubTasks(c)) \subseteq Range(evaluated)
  /\ ((\A c \in CategorySet : ~RunsCategory(c)) /\ pc # "load" /\ raised # "LoadError") =>
       /\ loads = 1
       /\ raised = "none"
       /\ evaluated = << >>
       /\ results = << >>
       /\ pc = "done" => returned = << << >> >>

C10_Witness ==
  /\ pc = "done"
  /\ metrics.kind = "list"
  /\ metrics.val = <<S_all>>
  /\ loads = 1
  /\ returned = << << >> >>
====
